---- MODULE Spec2Model ----
(***************************************************************************)
(* Real-time AI object tracking demo.                                      *)
(*                                                                         *)
(* The repository holds two versions of the App component:                 *)
(*   - src/unnamed/part_000 : the keyword-routing App (tasks object, face, *)
(*     hands, pose; handlePromptSubmit routes a prompt to a task);         *)
(*   - src/App.tsx          : the mode App (modes object, person_analysis; *)
(*     cloud analysis of face crops, nearest-centroid label matching);     *)
(* and the session reset hook of src/hooks.tsx over the atoms of           *)
(* src/atoms.tsx.                                                          *)
(*                                                                         *)
(* Strings are sequences of one-character strings, so that toLowerCase,    *)
(* trim and includes are computed character by character.                  *)
(***************************************************************************)
EXTENDS Integers, Sequences, FiniteSets, TLC

(***************************************************************************)
(* Bounds of the model.                                                    *)
(***************************************************************************)
\* longest prompt, in characters, the user types
MaxPromptLen == 10
\* largest playback timestamp the video reaches
MaxVideoTime == 1
\* most ticks of the performance.now() clock
MaxTicks == 6
\* most detections of one frame, most analysis results of one batch
MaxDetections == 2
MaxResults == 2
\* most entries of an annotation array, most camera tracks
MaxItems == 1
MaxTracks == 2

(***************************************************************************)
(* Strings.                                                                *)
(***************************************************************************)
UpperChars ==
    <<"A", "B", "C", "D", "E", "F", "G", "H", "I", "J", "K", "L", "M",
      "N", "O", "P", "Q", "R", "S", "T", "U", "V", "W", "X", "Y", "Z">>
LowerChars ==
    <<"a", "b", "c", "d", "e", "f", "g", "h", "i", "j", "k", "l", "m",
      "n", "o", "p", "q", "r", "s", "t", "u", "v", "w", "x", "y", "z">>

\* String.prototype.toLowerCase, one character
ToLowerChar(c) ==
    IF \E i \in 1..Len(UpperChars) : UpperChars[i] = c
    THEN LowerChars[CHOOSE i \in 1..Len(UpperChars) : UpperChars[i] = c]
    ELSE c

toLowerCase(s) == [i \in 1..Len(s) |-> ToLowerChar(s[i])]

IsSpace(c) == c \in {" ", "\t", "\n"}

\* String.prototype.trim: drops the leading and the trailing white space
trim(s) ==
    LET keep == {i \in 1..Len(s) : ~IsSpace(s[i])}
    IN  IF keep = {} THEN <<>>
        ELSE LET lo == CHOOSE i \in keep : \A j \in keep : i <= j
                 hi == CHOOSE i \in keep : \A j \in keep : j <= i
             IN  SubSeq(s, lo, hi)

\* String.prototype.includes: k occurs in s as a substring
includes(s, k) ==
    \E i \in 0..(Len(s) - Len(k)) : SubSeq(s, i + 1, i + Len(k)) = k

\* Array.prototype.some over a keyword list
SomeKeyword(keywords, s) ==
    \E i \in 1..Len(keywords) : includes(s, keywords[i])

faceKeywords ==
    << <<"f", "a", "c", "e">>,
       <<"h", "e", "a", "d">>,
       <<"s", "e", "l", "f", "i", "e">>,
       <<"v", "i", "s", "a", "g", "e">> >>

handKeywords ==
    << <<"h", "a", "n", "d">>,
       <<"h", "a", "n", "d", "s">>,
       <<"f", "i", "n", "g", "e", "r">>,
       <<"f", "i", "n", "g", "e", "r", "s">>,
       <<"p", "a", "l", "m">>,
       <<"w", "a", "v", "e">> >>

poseKeywords ==
    << <<"p", "o", "s", "e">>,
       <<"b", "o", "d", "y">>,
       <<"s", "t", "a", "n", "d">>,
       <<"d", "a", "n", "c", "e">>,
       <<"j", "u", "m", "p">>,
       <<"p", "o", "s", "t", "u", "r", "e">> >>

EmptyStr == <<>>
PersonStr == <<"p", "e", "r", "s", "o", "n">>
CupStr == <<"c", "u", "p">>
AgeAndGenderStr ==
    <<"a", "g", "e", " ", "a", "n", "d", " ", "g", "e", "n", "d", "e", "r">>

\* The pieces a user types or pastes into the prompt input.
Fragments ==
    { <<"f", "a", "c", "e">>,
      <<"H", "E", "A", "D">>,
      <<"h", "a", "n", "d">>,
      <<"w", "a", "v", "e">>,
      <<"p", "o", "s", "e">>,
      <<"h", "e", "l", "l", "o">>,
      <<"C", "u", "p">>,
      <<" ">> }

(***************************************************************************)
(* State.                                                                  *)
(***************************************************************************)
VARIABLES
    app,                \* which App component runs: "keyword" or "mode"
    inputPrompt,        \* useState inputPrompt
    isLoading,          \* useState isLoading
    errorMessage,       \* useState errorMessage
    activeTask,         \* useState activeTask (keyword App)
    detectionMode,      \* useState detectionMode (mode App)
    detectionTarget,    \* useState detectionTarget
    objectDetector,     \* useRef: "null", "open" or "closed"
    faceDetector,
    handLandmarker,
    poseLandmarker,
    vision,             \* useRef: "null" or "fileset"
    setupPc,            \* position of the async setup()
    creating,           \* createFromOptions calls not yet settled, by task
    liveModels,         \* models constructed and not yet closed
    srcObject,          \* video.srcObject: "null" or "stream"
    mounted,            \* the component is mounted (videoRef.current is set)
    cameraTrack,        \* the camera's track: "none", "live" or "stopped"
    loopStarted,        \* predict has run ('loadeddata' fired)
    rafScheduled,       \* an animation-frame callback is scheduled
    lastVideoTime,      \* module-level lastVideoTime
    currentTime,        \* video.currentTime
    inferenceCalls,     \* number of detectForVideo calls so far
    prevObserved,       \* timestamp the previous callback saw (-1: none)
    observedChanges,    \* callbacks whose timestamp differed from prevObserved
    last,               \* what the last step did
    personAnalysisResults, \* useState personAnalysisResults
    frameDetections,    \* results.detections of the frame being drawn
    matchPc,            \* "ready": a frame waits to be drawn; "drawn"
    attached,           \* per analysis result: the detection labelled, or 0
    canvasWidth,        \* canvas.width (0: not sized yet)
    strokes,            \* the rectangles stroked for the frame, in order
    ImageSrcAtom,       \* atoms.tsx: string | null
    IsUploadedImageAtom,
    BoundingBoxes2DAtom,
    BoundingBoxes3DAtom,
    BoundingBoxMasksAtom,
    ShareStream,        \* atoms.tsx: MediaStream | null
    ImageSentAtom,
    PointsAtom,
    DrawModeAtom,
    LinesAtom,
    tracks,             \* readyState of every MediaStreamTrack
    nowMs,              \* performance.now()
    lastAnalysisTime,   \* useRef lastAnalysisTime
    isAnalyzing,        \* useRef isAnalyzing
    requests,           \* generateContent calls: batch, face, bbox, status
    batchCount,         \* analysis batches dispatched so far
    lastDispatchTime,   \* performance.now() when the last batch was dispatched
    clearedBatch,       \* batchCount at the last submit that cleared the results
    reanalysisDue       \* a submit asked for a re-analysis and no frame with a
                        \* face has been processed since

uiVars == <<inputPrompt, isLoading, errorMessage, activeTask, detectionMode,
            detectionTarget>>
modelVars == <<objectDetector, faceDetector, handLandmarker, poseLandmarker,
               creating, liveModels>>
setupVars == <<vision, setupPc, srcObject, mounted, cameraTrack>>
loopVars == <<loopStarted, rafScheduled, lastVideoTime, currentTime,
              inferenceCalls, prevObserved, observedChanges>>
appVars == <<app, uiVars, modelVars, setupVars, loopVars, last>>

matchFrameVars == <<frameDetections, matchPc, attached, canvasWidth, strokes>>
matchVars == <<personAnalysisResults, matchFrameVars>>

annotationVars == <<BoundingBoxes2DAtom, BoundingBoxes3DAtom,
                    BoundingBoxMasksAtom, PointsAtom, LinesAtom>>
flagVars == <<ImageSrcAtom, IsUploadedImageAtom, ImageSentAtom, DrawModeAtom>>
atomVars == <<annotationVars, flagVars, ShareStream, tracks>>

analysisVars == <<nowMs, lastAnalysisTime, isAnalyzing, requests, batchCount, lastDispatchTime,
                  clearedBatch, reanalysisDue>>

vars == <<appVars, matchVars, atomVars, analysisVars>>

VisionTask == {"object", "face", "hands", "pose"}
DetectionMode == {"object", "person_analysis"}

ErrInit == "Failed to initialize. Please refresh the page."
ErrNoCamera == "Camera access is not supported by this browser."
ErrCamera == "Could not access the camera. Please grant permission and refresh."
ErrModel == "Failed to load the selected AI model. Please try another prompt."
ErrTracker == "Could not update tracker. Please try again."

\* The state of the first render: useState's initial values.
InitialPrompt(a) == IF a = "keyword" THEN PersonStr ELSE AgeAndGenderStr
InitialTarget(a) == IF a = "keyword" THEN PersonStr ELSE EmptyStr
InitialTask == "object"
InitialMode == "person_analysis"

InitApp(a) ==
    /\ app = a
    /\ inputPrompt = InitialPrompt(a)
    /\ isLoading = TRUE
    /\ errorMessage = ""
    /\ activeTask = InitialTask
    /\ detectionMode = InitialMode
    /\ detectionTarget = InitialTarget(a)
    /\ objectDetector = "null"
    /\ faceDetector = "null"
    /\ handLandmarker = "null"
    /\ poseLandmarker = "null"
    /\ vision = "null"
    /\ setupPc = "vision"
    /\ creating = <<>>
    /\ liveModels = 0
    /\ srcObject = "null"
    /\ mounted = TRUE
    /\ cameraTrack = "none"
    /\ loopStarted = FALSE
    /\ rafScheduled = FALSE
    /\ lastVideoTime = -1
    /\ currentTime = 0
    /\ inferenceCalls = 0
    /\ prevObserved = -1
    /\ observedChanges = 0
    /\ last = [op |-> "init"]
    /\ nowMs = 0
    /\ lastAnalysisTime = 0
    /\ isAnalyzing = FALSE
    /\ requests = {}
    /\ batchCount = 0
    /\ lastDispatchTime = 0
    /\ clearedBatch = 0
    /\ reanalysisDue = FALSE

\* personAnalysisResults: null, or an array of {bbox, text}
NullResults == [null |-> TRUE, items |-> <<>>]
Results(items) == [null |-> FALSE, items |-> items]

\* no frame is being matched
MatchIdle ==
    /\ personAnalysisResults = NullResults
    /\ frameDetections = <<>>
    /\ matchPc = "idle"
    /\ attached = <<>>
    /\ canvasWidth = 0
    /\ strokes = <<>>

(***************************************************************************)
(* switchModel and the settling of createFromOptions.                      *)
(***************************************************************************)
\* the number of handles on which ?.close() closes a model
OpenHandles(handles) ==
    Cardinality({i \in 1..Len(handles) : handles[i] = "open"})

\* part_000 switchModel up to its await: every handle is closed and nulled,
\* then the construction of the task's model begins.
switchModelKw(task) ==
    /\ isLoading' = TRUE
    /\ liveModels' = liveModels - OpenHandles(<<objectDetector, faceDetector,
                                                handLandmarker, poseLandmarker>>)
    /\ objectDetector' = "null"
    /\ faceDetector' = "null"
    /\ handLandmarker' = "null"
    /\ poseLandmarker' = "null"
    /\ creating' = Append(creating, task)

\* (a switchModel that leaves the previous handles alone)
switchModelNoClose(task) ==
    /\ isLoading' = TRUE
    /\ UNCHANGED <<objectDetector, faceDetector, handLandmarker,
                   poseLandmarker, liveModels>>
    /\ creating' = Append(creating, task)

\* App.tsx switchModel up to its await: only the object and the face handle
\* are closed and nulled.
switchModel(task) ==
    /\ isLoading' = TRUE
    /\ liveModels' = liveModels - OpenHandles(<<objectDetector, faceDetector>>)
    /\ objectDetector' = "null"
    /\ faceDetector' = "null"
    /\ UNCHANGED <<handLandmarker, poseLandmarker>>
    /\ creating' = Append(creating, task)

\* the switchModel of the running App, with the task of its first render
switchInitialModel ==
    IF app = "keyword" THEN switchModelKw(InitialTask)
    ELSE switchModel(InitialMode)

RemoveAt(seq, i) == SubSeq(seq, 1, i - 1) \o SubSeq(seq, i + 1, Len(seq))

\* createFromOptions fulfils: the handle of the task is assigned, then
\* setIsLoading(false) (and the caller's finally, which sets it again).
CreateResolved ==
    /\ \E i \in 1..Len(creating) :
        LET task == creating[i] IN
        /\ vision = "fileset"
        /\ creating' = RemoveAt(creating, i)
        /\ liveModels' = liveModels + 1
        /\ objectDetector' = IF task = "object" THEN "open" ELSE objectDetector
        /\ faceDetector' =
               IF task \in {"face", "person_analysis"} THEN "open"
               ELSE faceDetector
        /\ handLandmarker' = IF task = "hands" THEN "open" ELSE handLandmarker
        /\ poseLandmarker' = IF task = "pose" THEN "open" ELSE poseLandmarker
        /\ isLoading' = FALSE
        /\ last' = [op |-> "created", task |-> task]
    /\ UNCHANGED <<app, inputPrompt, errorMessage, activeTask,
                   detectionMode, detectionTarget, setupVars, loopVars>>
    /\ UNCHANGED <<matchFrameVars, atomVars, analysisVars, personAnalysisResults>>

\* createFromOptions rejects: switchModel's catch.
CreateRejected ==
    /\ \E i \in 1..Len(creating) :
        /\ creating' = RemoveAt(creating, i)
        /\ errorMessage' = ErrModel
        /\ isLoading' = FALSE
        /\ last' = [op |-> "createFailed", task |-> creating[i]]
    /\ UNCHANGED <<app, inputPrompt, activeTask, detectionMode,
                   detectionTarget, objectDetector, faceDetector,
                   handLandmarker, poseLandmarker, liveModels, setupVars,
                   loopVars>>
    /\ UNCHANGED <<matchFrameVars, atomVars, analysisVars, personAnalysisResults>>

(***************************************************************************)
(* The setup effect: FilesetResolver, setupCamera, the first switchModel.  *)
(***************************************************************************)
\* FilesetResolver.forVisionTasks fulfils; setupCamera runs to its await, or
\* returns at once where getUserMedia is missing and switchModel follows.
FilesetResolved ==
    /\ setupPc = "vision"
    /\ vision' = "fileset"
    /\ \E supported \in BOOLEAN :
        IF supported
        THEN /\ setupPc' = "camera"
             /\ last' = [op |-> "fileset"]
             /\ UNCHANGED <<uiVars, modelVars>>
        ELSE /\ setupPc' = "done"
             /\ errorMessage' = ErrNoCamera
             /\ switchInitialModel
             /\ last' = [op |-> "noCamera"]
             /\ UNCHANGED <<inputPrompt, activeTask, detectionMode,
                            detectionTarget>>
    /\ UNCHANGED <<app, srcObject, mounted, cameraTrack, loopVars>>
    /\ UNCHANGED <<matchFrameVars, atomVars, analysisVars, personAnalysisResults>>

\* FilesetResolver.forVisionTasks rejects: setup's catch.
FilesetRejected ==
    /\ setupPc = "vision"
    /\ setupPc' = "failed"
    /\ errorMessage' = ErrInit
    /\ isLoading' = FALSE
    /\ last' = [op |-> "filesetFailed"]
    /\ UNCHANGED <<app, inputPrompt, activeTask, detectionMode,
                   detectionTarget, modelVars, vision, srcObject, mounted,
                   cameraTrack, loopVars>>
    /\ UNCHANGED <<matchFrameVars, atomVars, analysisVars, personAnalysisResults>>

\* getUserMedia fulfils: if (videoRef.current) the stream is bound to the
\* video element and predict is registered for 'loadeddata'; switchModel
\* follows.
GetUserMediaResolved ==
    /\ setupPc = "camera"
    /\ setupPc' = "done"
    /\ cameraTrack' = "live"
    /\ srcObject' = IF mounted THEN "stream" ELSE srcObject
    /\ switchInitialModel
    /\ last' = [op |-> "camera"]
    /\ UNCHANGED <<app, inputPrompt, errorMessage, activeTask, detectionMode,
                   detectionTarget, vision, mounted, loopVars>>
    /\ UNCHANGED <<matchFrameVars, atomVars, analysisVars, personAnalysisResults>>

\* getUserMedia rejects: setupCamera's catch; switchModel follows.
GetUserMediaRejected ==
    /\ setupPc = "camera"
    /\ setupPc' = "done"
    /\ errorMessage' = ErrCamera
    /\ switchInitialModel
    /\ last' = [op |-> "cameraFailed"]
    /\ UNCHANGED <<app, inputPrompt, activeTask, detectionMode,
                   detectionTarget, vision, srcObject, mounted, cameraTrack,
                   loopVars>>
    /\ UNCHANGED <<matchFrameVars, atomVars, analysisVars, personAnalysisResults>>

(***************************************************************************)
(* The prompt input and the task router of the keyword App.                *)
(***************************************************************************)
\* the input and the submit button: disabled={isLoading || !!errorMessage}
FormEnabled == mounted /\ ~isLoading /\ errorMessage = ""

\* onChange of the input: a fragment is typed at the end, or the text is
\* cleared.
TypeFragment ==
    /\ FormEnabled
    /\ \/ \E f \in Fragments :
            /\ Len(inputPrompt) + Len(f) <= MaxPromptLen
            /\ inputPrompt' = inputPrompt \o f
       \/ /\ inputPrompt # EmptyStr
          /\ inputPrompt' = EmptyStr
    /\ last' = [op |-> "type"]
    /\ UNCHANGED <<app, isLoading, errorMessage, activeTask, detectionMode,
                   detectionTarget, modelVars, setupVars, loopVars>>
    /\ UNCHANGED <<matchFrameVars, atomVars, analysisVars, personAnalysisResults>>

\* (a router that forgets toLowerCase)
lowerCasePromptNoLower(p) == trim(p)

\* (a router that forgets trim)
lowerCasePromptNoTrim(p) == toLowerCase(p)

lowerCasePrompt(p) == trim(toLowerCase(p))

\* (a router that tests the pose list before the hand list)
newActiveTaskPoseFirst(p) ==
    LET l == lowerCasePrompt(p) IN
    IF SomeKeyword(faceKeywords, l) THEN "face"
    ELSE IF SomeKeyword(poseKeywords, l) THEN "pose"
    ELSE IF SomeKeyword(handKeywords, l) THEN "hands"
    ELSE "object"

newActiveTask(p) ==
    LET l == lowerCasePrompt(p) IN
    IF SomeKeyword(faceKeywords, l) THEN "face"
    ELSE IF SomeKeyword(handKeywords, l) THEN "hands"
    ELSE IF SomeKeyword(poseKeywords, l) THEN "pose"
    ELSE "object"

newDetectionTarget(p) ==
    IF newActiveTask(p) = "object" THEN lowerCasePrompt(p) ELSE EmptyStr

\* (a guard that also ignores a prompt of white space)
IsFalsyPromptTrimmed(p) == trim(p) = EmptyStr

\* !inputPrompt: only the empty string is falsy
IsFalsyPrompt(p) == p = EmptyStr

\* part_000 drawObjectDetections: the indices of the detections that are
\* drawn, given the category name of each detection.
drawObjectDetectionsKw(categories, target) ==
    {i \in 1..Len(categories) :
        ~(/\ target # EmptyStr
          /\ ~includes(toLowerCase(categories[i]), trim(toLowerCase(target))))}

\* (a handler that reloads the model on every submit)
TaskDiffersAlways(p) == TRUE

\* newActiveTask !== activeTask
TaskDiffers(p) == newActiveTask(p) # activeTask

\* part_000 handlePromptSubmit, up to its await of switchModel (or to its
\* end where no model is switched).
handlePromptSubmitKw ==
    /\ app = "keyword"
    /\ FormEnabled
    /\ last' = [op |-> "submit", prompt |-> inputPrompt,
                task |-> activeTask, target |-> detectionTarget,
                error |-> errorMessage,
                handles |-> <<objectDetector, faceDetector, handLandmarker,
                              poseLandmarker>>,
                creating |-> creating, live |-> liveModels]
    /\ IF IsFalsyPrompt(inputPrompt)
       THEN UNCHANGED <<isLoading, activeTask, detectionTarget, modelVars>>
       ELSE /\ detectionTarget' = newDetectionTarget(inputPrompt)
            /\ IF TaskDiffers(inputPrompt)
               THEN /\ activeTask' = newActiveTask(inputPrompt)
                    /\ switchModelKw(newActiveTask(inputPrompt))
               ELSE /\ isLoading' = FALSE
                    /\ UNCHANGED <<activeTask, modelVars>>
    /\ UNCHANGED <<app, inputPrompt, errorMessage, detectionMode, setupVars,
                   loopVars>>
    /\ UNCHANGED <<matchFrameVars, atomVars, analysisVars, personAnalysisResults>>

(***************************************************************************)
(* The atoms of atoms.tsx and the session reset of hooks.tsx.              *)
(***************************************************************************)
TrackIds == 1..MaxTracks

NullStream == [null |-> TRUE, tracks |-> {}]
Stream(ts) == [null |-> FALSE, tracks |-> ts]

NullImage == "null"
DefaultImage == "assets/1.png"

\* the initial values of the atoms (atoms.tsx:59-80)
InitAtoms ==
    /\ ImageSrcAtom = DefaultImage
    /\ IsUploadedImageAtom = FALSE
    /\ BoundingBoxes2DAtom = <<>>
    /\ BoundingBoxes3DAtom = <<>>
    /\ BoundingBoxMasksAtom = <<>>
    /\ ShareStream = NullStream
    /\ ImageSentAtom = FALSE
    /\ PointsAtom = <<>>
    /\ DrawModeAtom = FALSE
    /\ LinesAtom = <<>>
    /\ tracks = [t \in TrackIds |-> "unused"]

\* a component writes an annotation array: one more entry
AddAnnotation ==
    /\ \/ /\ Len(BoundingBoxes2DAtom) < MaxItems
          /\ BoundingBoxes2DAtom' = Append(BoundingBoxes2DAtom, "box2d")
          /\ UNCHANGED <<BoundingBoxes3DAtom, BoundingBoxMasksAtom, PointsAtom,
                         LinesAtom>>
       \/ /\ Len(BoundingBoxes3DAtom) < MaxItems
          /\ BoundingBoxes3DAtom' = Append(BoundingBoxes3DAtom, "box3d")
          /\ UNCHANGED <<BoundingBoxes2DAtom, BoundingBoxMasksAtom, PointsAtom,
                         LinesAtom>>
       \/ /\ Len(BoundingBoxMasksAtom) < MaxItems
          /\ BoundingBoxMasksAtom' = Append(BoundingBoxMasksAtom, "mask")
          /\ UNCHANGED <<BoundingBoxes2DAtom, BoundingBoxes3DAtom, PointsAtom,
                         LinesAtom>>
       \/ /\ Len(PointsAtom) < MaxItems
          /\ PointsAtom' = Append(PointsAtom, "point")
          /\ UNCHANGED <<BoundingBoxes2DAtom, BoundingBoxes3DAtom,
                         BoundingBoxMasksAtom, LinesAtom>>
       \/ /\ Len(LinesAtom) < MaxItems
          /\ LinesAtom' = Append(LinesAtom, "line")
          /\ UNCHANGED <<BoundingBoxes2DAtom, BoundingBoxes3DAtom,
                         BoundingBoxMasksAtom, PointsAtom>>
    /\ last' = [op |-> "write"]
    /\ UNCHANGED <<flagVars, ShareStream, tracks>>
    /\ UNCHANGED <<app, uiVars, modelVars, setupVars, loopVars, matchVars,
                   analysisVars>>

\* a component writes the image source or one of the flags
SetFlag ==
    /\ \/ /\ ImageSrcAtom' \in {NullImage, DefaultImage, "data:upload"}
          /\ UNCHANGED <<IsUploadedImageAtom, ImageSentAtom, DrawModeAtom>>
       \/ /\ IsUploadedImageAtom' \in BOOLEAN
          /\ UNCHANGED <<ImageSrcAtom, ImageSentAtom, DrawModeAtom>>
       \/ /\ ImageSentAtom' \in BOOLEAN
          /\ UNCHANGED <<ImageSrcAtom, IsUploadedImageAtom, DrawModeAtom>>
       \/ /\ DrawModeAtom' \in BOOLEAN
          /\ UNCHANGED <<ImageSrcAtom, IsUploadedImageAtom, ImageSentAtom>>
    /\ flagVars' # flagVars
    /\ last' = [op |-> "write"]
    /\ UNCHANGED <<annotationVars, ShareStream, tracks>>
    /\ UNCHANGED <<app, uiVars, modelVars, setupVars, loopVars, matchVars,
                   analysisVars>>

\* a component stores a freshly acquired stream in the stream cell
SetStream ==
    /\ ShareStream.null
    /\ \E ts \in SUBSET TrackIds :
          /\ ts # {}
          /\ \A t \in ts : tracks[t] = "unused"
          /\ ShareStream' = Stream(ts)
          /\ tracks' = [t \in TrackIds |-> IF t \in ts THEN "live" ELSE tracks[t]]
    /\ last' = [op |-> "write"]
    /\ UNCHANGED <<annotationVars, flagVars>>
    /\ UNCHANGED <<app, uiVars, modelVars, setupVars, loopVars, matchVars,
                   analysisVars>>

\* a track ends by itself (the device is unplugged)
TrackEnded ==
    /\ \E t \in TrackIds :
          /\ tracks[t] = "live"
          /\ tracks' = [tracks EXCEPT ![t] = "ended"]
    /\ last' = [op |-> "write"]
    /\ UNCHANGED <<annotationVars, flagVars, ShareStream>>
    /\ UNCHANGED <<app, uiVars, modelVars, setupVars, loopVars, matchVars,
                   analysisVars>>

\* (an updater that drops the stream without stopping its tracks)
StopTracksForgotten(prev, trs) == trs

\* prev?.getTracks().forEach((track) => track.stop())
StopTracks(prev, trs) ==
    IF prev.null THEN trs
    ELSE [t \in TrackIds |-> IF t \in prev.tracks THEN "ended" ELSE trs[t]]

\* the function returned by useResetState (hooks.tsx:46-60)
resetState ==
    /\ ImageSrcAtom' = NullImage
    /\ BoundingBoxes2DAtom' = <<>>
    /\ BoundingBoxes3DAtom' = <<>>
    /\ BoundingBoxMasksAtom' = <<>>
    /\ PointsAtom' = <<>>
    /\ LinesAtom' = <<>>
    /\ DrawModeAtom' = FALSE
    /\ tracks' = StopTracks(ShareStream, tracks)
    /\ ShareStream' = NullStream
    /\ IsUploadedImageAtom' = FALSE
    /\ ImageSentAtom' = FALSE
    /\ last' = [op |-> "reset", stream |-> ShareStream, tracks |-> tracks,
                drawn |-> BoundingBoxes2DAtom # <<>> /\ DrawModeAtom]
    /\ UNCHANGED <<app, uiVars, modelVars, setupVars, loopVars, matchVars,
                   analysisVars>>

InitReset == InitApp("mode") /\ MatchIdle /\ InitAtoms

NextReset ==
    \/ AddAnnotation
    \/ SetFlag
    \/ SetStream
    \/ TrackEnded
    \/ resetState

SpecReset == InitReset /\ [][NextReset]_vars

(***************************************************************************)
(* drawFaceDetections of App.tsx: the nearest-centroid matching pass.      *)
(***************************************************************************)
NoBox == [none |-> TRUE]

Box(x, y, w, h) == [originX |-> x, originY |-> y, width |-> w, height |-> h]

\* bounding boxes of the detections and of the analysis results
Boxes ==
    { Box(0, 0, 4, 4), Box(2, 0, 4, 4), Box(4, 0, 2, 2),
      Box(0, 3, 2, 2), Box(2, 0, 8, 4), Box(3, 1, 2, 2) }

HasBox(d) == d # NoBox

\* twice the centre of a box (the centre is origin + size / 2)
Center2(b) == [x |-> 2 * b.originX + b.width, y |-> 2 * b.originY + b.height]

\* 4 * distance^2 between the centres of two boxes.  Math.sqrt is monotone
\* and exact enough on these values, so distances are compared by their
\* squares: d < e iff 4d^2 < 4e^2.
Distance4Sq(a, b) ==
    (Center2(a).x - Center2(b).x) * (Center2(a).x - Center2(b).x)
    + (Center2(a).y - Center2(b).y) * (Center2(a).y - Center2(b).y)

\* the scan of App.tsx:363-380 from pool position i on: the position of the
\* best match so far (0: none) and its distance (-1: Infinity)
RECURSIVE ScanPool(_, _, _, _, _, _)
ScanPool(result, pool, dets, i, bestMatchIndex, minDistance) ==
    IF i > Len(pool) THEN bestMatchIndex
    ELSE LET detection == dets[pool[i]] IN
         IF ~HasBox(detection)
         THEN ScanPool(result, pool, dets, i + 1, bestMatchIndex, minDistance)
         ELSE LET distance == Distance4Sq(result.bbox, detection) IN
              IF minDistance = -1 \/ distance < minDistance
              THEN ScanPool(result, pool, dets, i + 1, i, distance)
              ELSE ScanPool(result, pool, dets, i + 1, bestMatchIndex,
                            minDistance)

\* minDistance < bestMatch.boundingBox.width * 0.75, on the squares:
\* sqrt(D4)/2 < 3w/4  iff  4 * D4 < 9 * w^2
CloseEnough(result, detection) ==
    4 * Distance4Sq(result.bbox, detection)
        < 9 * detection.width * detection.width

\* (a pass that accepts the nearest detection whatever its distance)
AcceptsMatchAlways(result, pool, dets, best) == best # 0

\* App.tsx:383: bestMatch && minDistance < bestMatch.boundingBox.width * 0.75
AcceptsMatch(result, pool, dets, best) ==
    best # 0 /\ CloseEnough(result, dets[pool[best]])

\* (a pass that leaves a claimed detection in the pool)
ClaimKeepsPool(pool, best) == pool

\* App.tsx:396: unattachedDetections.splice(bestMatchIndex, 1)
Claim(pool, best) == RemoveAt(pool, best)

\* the loop of App.tsx:353-398 from result k on, over the pool of the
\* detections not yet claimed: the detection each result labels (0: none)
RECURSIVE AttachFrom(_, _, _, _)
AttachFrom(results, dets, k, pool) ==
    IF k > Len(results) THEN <<>>
    ELSE LET best == ScanPool(results[k], pool, dets, 1, 0, -1) IN
         IF AcceptsMatch(results[k], pool, dets, best)
         THEN <<pool[best]>> \o AttachFrom(results, dets, k + 1,
                                           Claim(pool, best))
         ELSE <<0>> \o AttachFrom(results, dets, k + 1, pool)

\* the labels part of drawFaceDetections (App.tsx:349-399)
AttachLabels(results, dets) ==
    IF ~results.null /\ Len(results.items) > 0
    THEN AttachFrom(results.items, dets, 1, [i \in 1..Len(dets) |-> i])
    ELSE <<>>

SeqsUpTo(S, n) == UNION {[1..k -> S] : k \in 0..n}

\* a frame's detections and a stored result set, about to be drawn
InitMatch ==
    /\ InitApp("mode")
    /\ frameDetections \in SeqsUpTo(Boxes \cup {NoBox}, MaxDetections)
    /\ \E items \in SeqsUpTo([bbox : Boxes, text : {"label"}], MaxResults) :
          personAnalysisResults \in {Results(items), NullResults}
    /\ matchPc = "ready"
    /\ attached = <<>>
    /\ canvasWidth = 640
    /\ strokes = <<>>
    /\ InitAtoms

\* (a mirror that forgets the width of the box)
mirroredXOfOrigin(width, bbox) == width - bbox.originX

\* const mirroredX = width - bbox.originX - bbox.width
mirroredX(width, bbox) == width - bbox.originX - bbox.width

\* ctx.strokeRect(mirroredX, bbox.originY, bbox.width, bbox.height) for
\* detection i
strokeRect(width, bbox, i) ==
    [det |-> i, x |-> mirroredX(width, bbox), y |-> bbox.originY,
     width |-> bbox.width, height |-> bbox.height]

\* the first loop of drawFaceDetections (App.tsx:340-347): one rectangle per
\* detection that has a bounding box
RECURSIVE StrokeFaces(_, _, _)
StrokeFaces(dets, width, i) ==
    IF i > Len(dets) THEN <<>>
    ELSE IF ~HasBox(dets[i]) THEN StrokeFaces(dets, width, i + 1)
    ELSE <<strokeRect(width, dets[i], i)>> \o StrokeFaces(dets, width, i + 1)

drawFaceDetections ==
    /\ app = "mode"
    /\ matchPc = "ready"
    /\ matchPc' = "drawn"
    /\ strokes' = StrokeFaces(frameDetections, canvasWidth, 1)
    /\ attached' = AttachLabels(personAnalysisResults, frameDetections)
    /\ UNCHANGED <<personAnalysisResults, frameDetections, canvasWidth, app,
                   uiVars, modelVars, setupVars, loopVars, last, atomVars,
                   analysisVars>>

NextMatch == drawFaceDetections

SpecMatch == InitMatch /\ [][NextMatch]_vars

(***************************************************************************)
(* The rectangles of the object and face routines on the mirrored canvas.  *)
(***************************************************************************)
CommaStr == <<",">>

\* detectionTarget...split(/[\s,]+|and/i).filter(Boolean) on a lower-cased,
\* trimmed string: the set of its non-empty pieces
RECURSIVE SplitTargets(_, _, _)
SplitTargets(str, i, piece) ==
    LET done == IF piece = EmptyStr THEN {} ELSE {piece} IN
    IF i > Len(str) THEN done
    ELSE IF IsSpace(str[i]) \/ <<str[i]>> = CommaStr
    THEN done \cup SplitTargets(str, i + 1, EmptyStr)
    ELSE IF i + 2 <= Len(str) /\ SubSeq(str, i, i + 2) = <<"a", "n", "d">>
    THEN done \cup SplitTargets(str, i + 3, EmptyStr)
    ELSE SplitTargets(str, i + 1, Append(piece, str[i]))

\* App.tsx:303-307
targets(target) == SplitTargets(trim(toLowerCase(target)), 1, EmptyStr)

\* App.tsx:311-317: the detection is drawn
MatchesTargets(categoryName, target) ==
    \/ targets(target) = {}
    \/ \E t \in targets(target) : includes(toLowerCase(categoryName), t)

\* App.tsx drawObjectDetections: detections without a bounding box and
\* detections that match no target are skipped
RECURSIVE StrokeObjects(_, _, _, _, _)
StrokeObjects(dets, categories, target, width, i) ==
    IF i > Len(dets) THEN <<>>
    ELSE IF ~HasBox(dets[i]) \/ ~MatchesTargets(categories[i], target)
    THEN StrokeObjects(dets, categories, target, width, i + 1)
    ELSE <<strokeRect(width, dets[i], i)>>
             \o StrokeObjects(dets, categories, target, width, i + 1)

\* part_000 drawObjectDetections: detections of other categories are
\* skipped; detection.boundingBox! of a detection without a box throws and
\* ends the loop
RECURSIVE StrokeObjectsKw(_, _, _, _, _)
StrokeObjectsKw(dets, categories, target, width, i) ==
    IF i > Len(dets) THEN <<>>
    ELSE IF i \notin drawObjectDetectionsKw(categories, target)
    THEN StrokeObjectsKw(dets, categories, target, width, i + 1)
    ELSE IF ~HasBox(dets[i]) THEN <<>>
    ELSE <<strokeRect(width, dets[i], i)>>
             \o StrokeObjectsKw(dets, categories, target, width, i + 1)

\* categoryName of an object detection
ObjectCategories == {PersonStr, CupStr}

\* video.videoWidth, which predict copies to canvas.width
CanvasWidths == {8, 320, 640}

\* bounding boxes of a frame's detections
MirrorBoxes == {Box(10, 10, 100, 50), Box(0, 0, 4, 4), Box(4, 0, 2, 2),
                Box(600, 20, 40, 40)}

\* a frame's detections on a sized canvas, about to be drawn
InitMirror ==
    /\ \E a \in {"keyword", "mode"} : InitApp(a)
    /\ personAnalysisResults = NullResults
    /\ frameDetections \in SeqsUpTo(MirrorBoxes \cup {NoBox}, MaxDetections)
    /\ canvasWidth \in CanvasWidths
    /\ matchPc = "ready"
    /\ attached = <<>>
    /\ strokes = <<>>
    /\ InitAtoms

\* drawObjectDetections of the running App on the frame
drawObjectDetections ==
    /\ matchPc = "ready"
    /\ matchPc' = "drawn"
    /\ \E categories \in [1..Len(frameDetections) -> ObjectCategories] :
          strokes' =
              IF app = "keyword"
              THEN StrokeObjectsKw(frameDetections, categories,
                                   detectionTarget, canvasWidth, 1)
              ELSE StrokeObjects(frameDetections, categories,
                                 detectionTarget, canvasWidth, 1)
    /\ UNCHANGED <<personAnalysisResults, frameDetections, attached,
                   canvasWidth, app, uiVars, modelVars, setupVars, loopVars,
                   last, atomVars, analysisVars>>

NextMirror ==
    \/ drawFaceDetections
    \/ drawObjectDetections

SpecMirror == InitMirror /\ [][NextMirror]_vars

(***************************************************************************)
(* The router on its own: setup, typing, submitting, model loads.          *)
(***************************************************************************)
SetupNext ==
    \/ FilesetResolved
    \/ FilesetRejected
    \/ GetUserMediaResolved
    \/ GetUserMediaRejected
    \/ CreateResolved
    \/ CreateRejected

InitRouter == InitApp("keyword") /\ MatchIdle /\ InitAtoms

NextRouter ==
    \/ SetupNext
    \/ TypeFragment
    \/ handlePromptSubmitKw

SpecRouter == InitRouter /\ [][NextRouter]_vars

(***************************************************************************)
(* The mode App (App.tsx): mode buttons and prompt form.                   *)
(***************************************************************************)
MoodStr == <<"m", "o", "o", "d">>

\* whole texts the user leaves in the prompt input
PastedPrompts ==
    IF app = "keyword"
    THEN {EmptyStr, <<"f", "a", "c", "e">>, <<"w", "a", "v", "e">>,
          <<" ", "C", "u", "p">>}
    ELSE {EmptyStr, MoodStr}

\* onChange of the input: the text is replaced
TypePrompt ==
    /\ FormEnabled
    /\ inputPrompt' \in PastedPrompts \ {inputPrompt}
    /\ last' = [op |-> "type"]
    /\ UNCHANGED <<app, isLoading, errorMessage, activeTask, detectionMode,
                   detectionTarget, modelVars, setupVars, loopVars>>
    /\ UNCHANGED <<matchFrameVars, atomVars, analysisVars, personAnalysisResults>>

\* the mode buttons of App.tsx are disabled={isLoading}
ModeButtonsEnabled == app = "mode" /\ mounted /\ ~isLoading

\* App.tsx handleModeChange, up to switchModel's await
handleModeChange ==
    /\ ModeButtonsEnabled
    /\ \E mode \in DetectionMode :
          /\ mode # detectionMode
          /\ detectionMode' = mode
          /\ personAnalysisResults' = NullResults
          /\ errorMessage' = ""
          /\ inputPrompt' = IF mode = "object" THEN CupStr ELSE AgeAndGenderStr
          /\ detectionTarget' = IF mode = "object" THEN CupStr ELSE EmptyStr
          /\ switchModel(mode)
          /\ last' = [op |-> "mode", mode |-> mode,
                      closed |-> OpenHandles(<<objectDetector, faceDetector>>)]
    /\ UNCHANGED <<app, activeTask, setupVars, loopVars, analysisVars>>
    /\ UNCHANGED <<matchFrameVars, atomVars>>

\* App.tsx handlePromptSubmit
handlePromptSubmit ==
    /\ app = "mode"
    /\ FormEnabled
    /\ last' = [op |-> "submit", prompt |-> inputPrompt]
    /\ IF IsFalsyPrompt(inputPrompt)
       THEN UNCHANGED <<detectionTarget, lastAnalysisTime,
                        personAnalysisResults, clearedBatch, reanalysisDue>>
       ELSE IF detectionMode = "object"
       THEN /\ detectionTarget' = inputPrompt
            /\ UNCHANGED <<lastAnalysisTime, personAnalysisResults,
                           clearedBatch, reanalysisDue>>
       ELSE /\ lastAnalysisTime' = 0
            /\ personAnalysisResults' = NullResults
            /\ clearedBatch' = batchCount
            /\ reanalysisDue' = TRUE
            /\ UNCHANGED detectionTarget
    /\ UNCHANGED <<app, inputPrompt, isLoading, errorMessage, activeTask,
                   detectionMode, modelVars, setupVars, loopVars, nowMs,
                   isAnalyzing, requests, batchCount, lastDispatchTime>>
    /\ UNCHANGED <<matchFrameVars, atomVars>>

(***************************************************************************)
(* The cloud analysis of App.tsx: analyzeAllFaces and its requests.        *)
(***************************************************************************)
AnalysisIntervalMs == 3000

\* the step of the performance.now() clock
TickMs == AnalysisIntervalMs \div 2

\* predict is registered once, by the setup of the first render, so the
\* render loop reads the state of the first render
loopActiveTask == InitialTask
loopDetectionMode == InitialMode
loopInputPrompt == InitialPrompt("mode")
loopPersonAnalysisResults == NullResults
loopDetectionTarget == InitialTarget(app)

\* results.detections of a face detection
CameraFrames ==
    { <<>>,
      <<Box(0, 0, 4, 4), Box(4, 0, 2, 2)>>,
      <<Box(0, 0, 4, 4), NoBox>> }

Pending == {r \in requests : r.status = "pending"}

\* the requests analyzeAllFaces issues for a frame's detections, one per
\* detection with a bounding box
NewRequests(dets, batch) ==
    {[batch |-> batch, face |-> i, bbox |-> dets[i],
      prompt |-> loopInputPrompt, status |-> "pending", awaited |-> TRUE] :
        i \in {j \in 1..Len(dets) : HasBox(dets[j])}}

\* App.tsx:177-183: the early return of analyzeAllFaces
AnalysisRefused(dets) == Len(dets) = 0 \/ isAnalyzing

\* analyzeAllFaces(dets), up to its await of Promise.all; a batch without a
\* request has Promise.all fulfil at once with no result
analyzeAllFaces(dets) ==
    IF AnalysisRefused(dets)
    THEN UNCHANGED <<isAnalyzing, requests, batchCount, lastDispatchTime, personAnalysisResults>>
    ELSE /\ batchCount' = batchCount + 1
         /\ lastDispatchTime' = nowMs
         /\ requests' = requests \cup NewRequests(dets, batchCount + 1)
         /\ IF NewRequests(dets, batchCount + 1) = {}
            THEN /\ personAnalysisResults' = Results(<<>>)
                 /\ isAnalyzing' = FALSE
            ELSE /\ isAnalyzing' = TRUE
                 /\ UNCHANGED personAnalysisResults

\* the fulfilled requests of a batch in detection order, as {bbox, text}
RECURSIVE BatchItems(_, _)
BatchItems(rs, face) ==
    IF rs = {} THEN <<>>
    ELSE IF \E r \in rs : r.face = face
    THEN LET r == CHOOSE x \in rs : x.face = face IN
         <<[bbox |-> r.bbox, text |-> r.prompt]>>
             \o BatchItems(rs \ {r}, face + 1)
    ELSE BatchItems(rs, face + 1)

\* generateContent fulfils.  When it was the last pending request of a batch
\* whose Promise.all is awaited, the batch's results replace the stored ones
\* and the busy flag is cleared.
RequestFulfilled ==
    /\ \E r \in Pending :
          LET batch == {x \in requests : x.batch = r.batch}
              done == [r EXCEPT !.status = "fulfilled"]
              others == batch \ {r}
          IN  IF r.awaited /\ \A x \in others : x.status = "fulfilled"
              THEN /\ requests' = requests \ batch
                   /\ personAnalysisResults' =
                          Results(BatchItems(others \cup {done}, 1))
                   /\ isAnalyzing' = FALSE
                   /\ last' = [op |-> "batchDone", batch |-> r.batch]
              ELSE /\ requests' =
                          IF r.awaited THEN (requests \ {r}) \cup {done}
                          ELSE requests \ {r}
                   /\ last' = [op |-> "fulfilled", batch |-> r.batch]
                   /\ UNCHANGED <<personAnalysisResults, isAnalyzing>>
    /\ UNCHANGED <<app, uiVars, modelVars, setupVars, loopVars, nowMs,
                   lastAnalysisTime, batchCount, lastDispatchTime, clearedBatch,
                   reanalysisDue>>
    /\ UNCHANGED <<matchFrameVars, atomVars>>

\* (a catch that stores what has arrived so far)
RequestRejectedStoresPartial ==
    /\ \E r \in Pending :
          LET batch == {x \in requests : x.batch = r.batch} IN
          IF r.awaited
          THEN /\ requests' =
                      (requests \ batch)
                      \cup {[x EXCEPT !.awaited = FALSE] :
                               x \in {y \in batch \ {r} : y.status = "pending"}}
               /\ isAnalyzing' = FALSE
               /\ personAnalysisResults' =
                      Results(BatchItems({x \in batch : x.status = "fulfilled"},
                                         1))
               /\ last' = [op |-> "batchFailed", batch |-> r.batch]
          ELSE /\ requests' = requests \ {r}
               /\ last' = [op |-> "rejected", batch |-> r.batch]
               /\ UNCHANGED <<isAnalyzing, personAnalysisResults>>
    /\ UNCHANGED <<app, uiVars, modelVars, setupVars, loopVars, nowMs,
                   lastAnalysisTime, batchCount, lastDispatchTime, clearedBatch,
                   reanalysisDue>>
    /\ UNCHANGED <<matchFrameVars, atomVars>>

\* (a rejection handled without the finally)
RequestRejectedKeepsFlag ==
    /\ \E r \in Pending :
          LET batch == {x \in requests : x.batch = r.batch} IN
          IF r.awaited
          THEN /\ requests' =
                      (requests \ batch)
                      \cup {[x EXCEPT !.awaited = FALSE] :
                               x \in {y \in batch \ {r} : y.status = "pending"}}
               /\ last' = [op |-> "batchFailed", batch |-> r.batch]
          ELSE /\ requests' = requests \ {r}
               /\ last' = [op |-> "rejected", batch |-> r.batch]
    /\ UNCHANGED <<app, uiVars, modelVars, setupVars, loopVars, nowMs,
                   lastAnalysisTime, batchCount, lastDispatchTime, clearedBatch,
                   reanalysisDue, personAnalysisResults, isAnalyzing>>
    /\ UNCHANGED <<matchFrameVars, atomVars>>

\* generateContent rejects.  Promise.all of an awaited batch rejects at
\* once: the catch logs, the finally clears the busy flag; the batch's other
\* requests stay in flight, awaited by no one.
RequestRejected ==
    /\ \E r \in Pending :
          LET batch == {x \in requests : x.batch = r.batch} IN
          IF r.awaited
          THEN /\ requests' =
                      (requests \ batch)
                      \cup {[x EXCEPT !.awaited = FALSE] :
                               x \in {y \in batch \ {r} : y.status = "pending"}}
               /\ isAnalyzing' = FALSE
               /\ last' = [op |-> "batchFailed", batch |-> r.batch]
          ELSE /\ requests' = requests \ {r}
               /\ last' = [op |-> "rejected", batch |-> r.batch]
               /\ UNCHANGED isAnalyzing
    /\ UNCHANGED <<app, uiVars, modelVars, setupVars, loopVars, nowMs,
                   lastAnalysisTime, batchCount, lastDispatchTime, clearedBatch,
                   reanalysisDue, personAnalysisResults>>
    /\ UNCHANGED <<matchFrameVars, atomVars>>

(***************************************************************************)
(* predict and its render loop.                                            *)
(***************************************************************************)
\* the detector the render loop of part_000 invokes ("none": results stay
\* undefined)
DetectorKw ==
    IF loopActiveTask = "object" /\ objectDetector # "null" THEN "object"
    ELSE IF loopActiveTask = "face" /\ faceDetector # "null" THEN "face"
    ELSE IF loopActiveTask = "hands" /\ handLandmarker # "null" THEN "hands"
    ELSE IF loopActiveTask = "pose" /\ poseLandmarker # "null" THEN "pose"
    ELSE "none"

\* the detector the render loop of App.tsx invokes
DetectorMode ==
    IF loopDetectionMode = "object" /\ objectDetector # "null" THEN "object"
    ELSE IF loopDetectionMode = "person_analysis" /\ faceDetector # "null"
    THEN "face"
    ELSE "none"

\* (a loop that processes every callback)
FrameIsNewAlways == TRUE

\* video.currentTime !== lastVideoTime
FrameIsNew == currentTime # lastVideoTime

\* (an interval test that always passes)
AnalysisDueAtOnce == TRUE

\* nowMs - lastAnalysisTime.current > 3000
AnalysisDue == nowMs - lastAnalysisTime > AnalysisIntervalMs

\* what a callback did: whether it saw the timestamp of the previous
\* callback, the detector it invoked, whether it redrew, the faces of the
\* frame, the mode on screen, the time since lastAnalysisTime, whether it
\* called analyzeAllFaces, the busy flag at that call, the requests issued,
\* whether a batch was dispatched and whether lastAnalysisTime was rewritten
Callback(detector, drew, faces, called) ==
    [op |-> "renderLoop", same |-> currentTime = prevObserved,
     detector |-> detector, drew |-> drew, faces |-> faces,
     mode |-> detectionMode, elapsed |-> nowMs - lastAnalysisTime,
     sinceDispatch |-> nowMs - lastDispatchTime,
     called |-> called, busy |-> isAnalyzing, due |-> reanalysisDue,
     issued |-> Cardinality(requests' \ requests),
     dispatched |-> batchCount' # batchCount,
     restamped |-> lastAnalysisTime' # lastAnalysisTime]

\* (a loop that waits for the analysis before the next callback)
RescheduledUnlessAnalyzing == ~isAnalyzing'

\* window.requestAnimationFrame(renderLoop), the last statement of every
\* callback
Rescheduled == TRUE

\* the body of renderLoop
renderLoopBody ==
    /\ prevObserved' = currentTime
    /\ observedChanges' =
          IF currentTime # prevObserved THEN observedChanges + 1
          ELSE observedChanges
    /\ IF FrameIsNew
       THEN /\ lastVideoTime' = currentTime
            /\ IF app = "keyword"
               THEN /\ inferenceCalls' =
                          inferenceCalls + IF DetectorKw = "none" THEN 0 ELSE 1
                    /\ UNCHANGED <<analysisVars, personAnalysisResults>>
                    /\ last' = Callback(DetectorKw, TRUE, 0, FALSE)
               ELSE /\ inferenceCalls' =
                          inferenceCalls + IF DetectorMode = "none" THEN 0 ELSE 1
                    /\ \E dets \in IF DetectorMode = "face" THEN CameraFrames
                                     ELSE {<<>>} :
                          IF /\ loopDetectionMode = "person_analysis"
                             /\ Len(dets) > 0
                             /\ AnalysisDue
                          THEN /\ lastAnalysisTime' = nowMs
                               /\ analyzeAllFaces(dets)
                               /\ reanalysisDue' = FALSE
                               /\ UNCHANGED <<nowMs, clearedBatch>>
                               /\ last' = Callback(DetectorMode, TRUE,
                                                   Len(dets), TRUE)
                          ELSE /\ reanalysisDue' =
                                      (reanalysisDue /\ Len(dets) = 0)
                               /\ UNCHANGED <<nowMs, lastAnalysisTime,
                                              isAnalyzing, requests,
                                              batchCount, lastDispatchTime, clearedBatch,
                                              personAnalysisResults>>
                               /\ last' = Callback(DetectorMode, TRUE,
                                                   Len(dets), FALSE)
       ELSE /\ UNCHANGED <<lastVideoTime, inferenceCalls, analysisVars,
                           personAnalysisResults>>
            /\ last' = Callback("none", FALSE, 0, FALSE)
    /\ rafScheduled' = Rescheduled
    /\ UNCHANGED <<app, uiVars, modelVars, setupVars, currentTime>>
    /\ UNCHANGED <<matchFrameVars, atomVars>>

\* 'loadeddata': predict sizes the canvas and runs renderLoop once
predict ==
    /\ mounted
    /\ srcObject = "stream"
    /\ ~loopStarted
    /\ loopStarted' = TRUE
    /\ renderLoopBody

\* an animation-frame callback
renderLoop ==
    /\ rafScheduled
    /\ renderLoopBody
    /\ UNCHANGED loopStarted

\* the camera delivers the next frame
VideoFrame ==
    /\ srcObject = "stream"
    /\ cameraTrack = "live"
    /\ currentTime < MaxVideoTime
    /\ currentTime' = currentTime + 1
    /\ last' = [op |-> "frame"]
    /\ UNCHANGED <<app, uiVars, modelVars, setupVars, loopStarted,
                   rafScheduled, lastVideoTime, inferenceCalls, prevObserved,
                   observedChanges, analysisVars, personAnalysisResults>>
    /\ UNCHANGED <<matchFrameVars, atomVars>>

\* ?.close() on a handle
Closed(handle) == IF handle = "open" THEN "closed" ELSE handle

\* the cleanup of the setup effect: the scheduled callback is cancelled, the
\* tracks of videoRef.current?.srcObject are stopped (the ref may be detached
\* already when the cleanup runs) and every handle is closed, not nulled
cleanup ==
    /\ mounted
    /\ mounted' = FALSE
    /\ rafScheduled' = FALSE
    /\ \E refAttached \in BOOLEAN :
          /\ cameraTrack' =
                 IF refAttached /\ srcObject = "stream" THEN "stopped"
                 ELSE cameraTrack
          /\ last' = [op |-> "cleanup", ref |-> refAttached]
    /\ objectDetector' = Closed(objectDetector)
    /\ faceDetector' = Closed(faceDetector)
    /\ handLandmarker' = Closed(handLandmarker)
    /\ poseLandmarker' = Closed(poseLandmarker)
    /\ liveModels' = liveModels - OpenHandles(<<objectDetector, faceDetector,
                                                handLandmarker, poseLandmarker>>)
    /\ UNCHANGED <<app, uiVars, creating, vision, setupPc, srcObject,
                   loopStarted, lastVideoTime, currentTime, inferenceCalls,
                   prevObserved, observedChanges, analysisVars,
                   personAnalysisResults>>
    /\ UNCHANGED <<matchFrameVars, atomVars>>

\* time passes; performance.now() is read by the render loop alone, so the
\* clock is followed while the component is mounted
Tick ==
    /\ app = "mode"
    /\ mounted
    /\ nowMs < MaxTicks * TickMs
    /\ nowMs' = nowMs + TickMs
    /\ last' = [op |-> "tick"]
    /\ UNCHANGED <<app, uiVars, modelVars, setupVars, loopVars,
                   lastAnalysisTime, isAnalyzing, requests, batchCount, lastDispatchTime,
                   clearedBatch, reanalysisDue, personAnalysisResults>>
    /\ UNCHANGED <<matchFrameVars, atomVars>>

(***************************************************************************)
(* The two Apps, each from its first render on.                            *)
(***************************************************************************)
Init ==
    /\ \E a \in {"keyword", "mode"} : InitApp(a)
    /\ MatchIdle
    /\ InitAtoms

Next ==
    \/ SetupNext
    \/ TypePrompt
    \/ handlePromptSubmitKw
    \/ handleModeChange
    \/ handlePromptSubmit
    \/ predict
    \/ renderLoop
    \/ VideoFrame
    \/ cleanup
    \/ Tick
    \/ RequestFulfilled
    \/ RequestRejected

Spec == Init /\ [][Next]_vars

\* every generateContent call settles: while a request is pending, one of
\* the pending requests fulfils or rejects
RequestSettles == RequestFulfilled \/ RequestRejected

\* the mode App from its first render on, with the steps that dispatch and
\* settle analysis batches: setup, the render loop, the clock, the prompt
\* submit and the requests
InitSettling == InitApp("mode") /\ MatchIdle /\ InitAtoms

NextSettling ==
    \/ SetupNext
    \/ handlePromptSubmit
    \/ predict
    \/ renderLoop
    \/ VideoFrame
    \/ Tick
    \/ RequestFulfilled
    \/ RequestRejected

SpecSettling ==
    InitSettling /\ [][NextSettling]_vars /\ WF_vars(RequestSettles)

(***************************************************************************)
(* Properties of the task router (SpecRouter).                             *)
(***************************************************************************)
Submitted == last.op = "submit"

HasFaceKeyword(p) == SomeKeyword(faceKeywords, trim(toLowerCase(p)))
HasHandKeyword(p) == SomeKeyword(handKeywords, trim(toLowerCase(p)))
HasPoseKeyword(p) == SomeKeyword(poseKeywords, trim(toLowerCase(p)))

WaveHelloStr == <<"w", "a", "v", "e", " ", "h", "e", "l", "l", "o">>

\* C1: a submitted non-empty prompt whose lower-cased, trimmed text contains
\* a face keyword selects the face task and the empty detection target,
\* whatever its casing, its surrounding white space and its other keywords.
C1_FaceKeywordSelectsFace ==
    (Submitted /\ last.prompt # EmptyStr /\ HasFaceKeyword(last.prompt))
        => (activeTask = "face" /\ detectionTarget = EmptyStr)

\* a prompt in capitals, behind white space, followed by a hand keyword,
\* submitted while another task was active, has been routed to face
C1_Witness ==
    /\ Submitted
    /\ last.prompt = <<" ", "H", "E", "A", "D", "w", "a", "v", "e">>
    /\ last.task = "object"
    /\ activeTask = "face"

C3_RouterPriority ==
    /\ (Submitted /\ ~HasFaceKeyword(last.prompt) /\ HasHandKeyword(last.prompt))
          => (activeTask = "hands" /\ detectionTarget = EmptyStr)
    /\ (/\ Submitted
        /\ ~HasFaceKeyword(last.prompt)
        /\ ~HasHandKeyword(last.prompt)
        /\ HasPoseKeyword(last.prompt))
          => (activeTask = "pose" /\ detectionTarget = EmptyStr)
    /\ (Submitted /\ last.prompt = WaveHelloStr)
          => (activeTask = "hands" /\ detectionTarget = EmptyStr)

\* a prompt with a hand and a pose keyword has been routed to hands
C3_Witness ==
    /\ Submitted
    /\ last.prompt = <<"p", "o", "s", "e", "w", "a", "v", "e">>
    /\ last.task # "hands"
    /\ activeTask = "hands"
    /\ detectionTarget = EmptyStr

\* category lists of a few object detections
SampleCategories ==
    { <<>>, <<PersonStr>>, <<CupStr>>, <<PersonStr, CupStr>>,
      <<<<"C", "u", "p">>, PersonStr>> }

Drawn == matchPc = "drawn"

\* 4 * distance^2 from analysis result k to detection i
ResultToDetection4Sq(k, i) ==
    Distance4Sq(personAnalysisResults.items[k].bbox, frameDetections[i])

\* distance < 0.75 * width of detection i, on the squares
WithinThreshold(k, i) ==
    4 * ResultToDetection4Sq(k, i)
        < 9 * frameDetections[i].width * frameDetections[i].width

OneResultTwoBoxes ==
    /\ ~personAnalysisResults.null
    /\ Len(personAnalysisResults.items) = 1
    /\ Len(frameDetections) = 2
    /\ HasBox(frameDetections[1])
    /\ HasBox(frameDetections[2])

\* C5: one analysis result and two detections at distances d1 < d2 from it:
\* the result labels the d1 detection iff d1 < 0.75 * (width of the d1
\* detection); otherwise it labels no detection, the d2 one included.
C5_NearestCentroidThreshold ==
    (Drawn /\ OneResultTwoBoxes)
        => \A i, j \in {1, 2} :
              (i # j /\ ResultToDetection4Sq(1, i) < ResultToDetection4Sq(1, j))
                  => attached = IF WithinThreshold(1, i) THEN <<i>> ELSE <<0>>

\* the nearer detection is too far for its width, the farther one would be
\* within 0.75 * its own width, and the result labels nothing
C5_Witness ==
    /\ Drawn
    /\ OneResultTwoBoxes
    /\ ResultToDetection4Sq(1, 1) < ResultToDetection4Sq(1, 2)
    /\ ~WithinThreshold(1, 1)
    /\ WithinThreshold(1, 2)
    /\ attached = <<0>>

\* the detections no result before k has claimed
UnclaimedBefore(k) ==
    {i \in 1..Len(frameDetections) :
        HasBox(frameDetections[i]) /\ \A j \in 1..(k - 1) : attached[j] # i}

\* C6: in one pass no two analysis results label the same detection; the
\* results are served in result order, each from the detections that no
\* earlier result has claimed (it labels the nearest of them, or nothing).
C6_ClaimedDetectionExclusive ==
    (Drawn /\ ~personAnalysisResults.null)
        => /\ Len(attached) = Len(personAnalysisResults.items)
           /\ \A k \in 1..Len(attached) :
                attached[k] # 0 =>
                  /\ attached[k] \in UnclaimedBefore(k)
                  /\ \A i \in UnclaimedBefore(k) :
                        ResultToDetection4Sq(k, attached[k])
                            <= ResultToDetection4Sq(k, i)
           /\ \A k1, k2 \in 1..Len(attached) :
                (k1 # k2 /\ attached[k1] # 0) => attached[k1] # attached[k2]

\* two results whose nearest detection is the same one: the first claims
\* it, the second labels the other detection
C6_Witness ==
    /\ Drawn
    /\ ~personAnalysisResults.null
    /\ Len(personAnalysisResults.items) = 2
    /\ Len(frameDetections) = 2
    /\ HasBox(frameDetections[1])
    /\ HasBox(frameDetections[2])
    /\ ResultToDetection4Sq(1, 1) < ResultToDetection4Sq(1, 2)
    /\ ResultToDetection4Sq(2, 1) < ResultToDetection4Sq(2, 2)
    /\ attached = <<1, 2>>

(***************************************************************************)
(* Properties of the session reset (SpecReset).                            *)
(***************************************************************************)
\* C8: after the reset function has run, in whatever state it was called,
\* the 2D-box, 3D-box, mask, point and line arrays are empty, the image
\* source is null, the draw-mode, uploaded-image and image-sent flags are
\* false, the stream cell is null and every track of the stream held before
\* the call is stopped; with a null stream cell no track changes.
C8_ResetClearsSession ==
    last.op = "reset" =>
        /\ BoundingBoxes2DAtom = <<>>
        /\ BoundingBoxes3DAtom = <<>>
        /\ BoundingBoxMasksAtom = <<>>
        /\ PointsAtom = <<>>
        /\ LinesAtom = <<>>
        /\ ImageSrcAtom = NullImage
        /\ ~DrawModeAtom
        /\ ~IsUploadedImageAtom
        /\ ~ImageSentAtom
        /\ ShareStream = NullStream
        /\ \A t \in TrackIds :
              tracks[t] = IF ~last.stream.null /\ t \in last.stream.tracks
                          THEN "ended"
                          ELSE last.tracks[t]

\* a reset called with a box drawn, the draw mode on and a stream of two
\* live tracks held
C8_Witness ==
    /\ last.op = "reset"
    /\ ~last.stream.null
    /\ Cardinality(last.stream.tracks) = 2
    /\ \A t \in last.stream.tracks : last.tracks[t] = "live"
    /\ last.drawn
    /\ \A t \in last.stream.tracks : tracks[t] = "ended"

(***************************************************************************)
(* Properties of the two Apps (Spec).                                      *)
(***************************************************************************)
\* C7: a callback that finds the timestamp of the previous callback invokes
\* no detector, calls no analysis, issues no request and does not redraw;
\* the detector is never invoked more often than the timestamp seen by the
\* callbacks has changed.
C7_FrameDeduplication ==
    /\ (last.op = "renderLoop" /\ last.same)
          => (/\ last.detector = "none"
              /\ ~last.called
              /\ last.issued = 0
              /\ ~last.drew)
    /\ inferenceCalls <= observedChanges

\* a callback of the mode App on an unchanged timestamp, with the face
\* detector loaded and an analysis due
C7_Witness ==
    /\ app = "mode"
    /\ last.op = "renderLoop"
    /\ last.same
    /\ faceDetector = "open"
    /\ inferenceCalls >= 1
    /\ ~isAnalyzing
    /\ nowMs - lastAnalysisTime > AnalysisIntervalMs

Handles == <<objectDetector, faceDetector, handLandmarker, poseLandmarker>>

\* C9: at most one detector handle is non-null and at most one model is
\* alive; while switchModel constructs a model every handle is null and
\* every earlier model is closed.
C9_SingleActiveModel ==
    /\ Cardinality({i \in 1..4 : Handles[i] # "null"}) <= 1
    /\ liveModels <= 1
    /\ creating # <<>> =>
          (/\ \A i \in 1..4 : Handles[i] = "null"
           /\ liveModels = 0)

\* a mode change has closed the loaded face model and constructs the object
\* model
C9_Witness ==
    /\ last.op = "mode"
    /\ last.mode = "object"
    /\ last.closed = 1
    /\ creating = <<"object">>
    /\ \A i \in 1..4 : Handles[i] = "null"

\* the batches with a cloud request that has not settled
BatchesInFlight == {r.batch : r \in Pending}

\* C10 as stated: at most one analysis batch has requests in flight, and a
\* call of analyzeAllFaces made while the busy flag is set issues no request
\* and leaves the flag set.
C10_SingleAnalysisBatch_AsStated ==
    /\ Cardinality(BatchesInFlight) <= 1
    /\ (last.op = "renderLoop" /\ last.called /\ last.busy)
          => (last.issued = 0 /\ isAnalyzing)

\* C11 as stated: a processed frame dispatches a batch exactly when the mode
\* is person analysis, the frame has a face, at least 3000 ms have passed
\* since the last batch was dispatched and the busy flag is clear; a call the
\* busy flag refuses leaves lastAnalysisTime alone.
C11_AnalysisTrigger_AsStated ==
    (last.op = "renderLoop" /\ last.drew) =>
        /\ last.dispatched <=>
              (/\ last.mode = "person_analysis"
               /\ last.faces > 0
               /\ last.elapsed >= AnalysisIntervalMs
               /\ ~last.busy)
        /\ (last.called /\ last.busy) => ~last.restamped

\* the requests of a batch
BatchOf(b) == {x \in requests : x.batch = b}

\* C12: the stored results become a batch's results only in the one step in
\* which the last request of a batch fulfils, every request of that batch
\* being awaited and fulfilled, one entry per request (a batch whose
\* detections have no bounding box stores the empty list when dispatched);
\* a step in which a request rejects leaves the stored results as they are
\* and leaves no request of its batch awaited.
C12_BatchResultReplacement ==
    /\ [][(/\ personAnalysisResults' # personAnalysisResults
           /\ ~personAnalysisResults'.null)
          => \/ /\ last'.op = "batchDone"
                /\ BatchOf(last'.batch) # {}
                /\ \A x \in BatchOf(last'.batch) : x.awaited
                /\ Cardinality({x \in BatchOf(last'.batch) :
                                   x.status = "pending"}) = 1
                /\ Len(personAnalysisResults'.items)
                      = Cardinality(BatchOf(last'.batch))
                /\ requests' = requests \ BatchOf(last'.batch)
             \/ /\ last'.op = "renderLoop"
                /\ last'.dispatched
                /\ last'.issued = 0
                /\ personAnalysisResults'.items = <<>>]_vars
    /\ [][last'.op \in {"batchFailed", "rejected"}
          => /\ personAnalysisResults' = personAnalysisResults
             /\ \A x \in requests' : x.batch = last'.batch => ~x.awaited]_vars

\* a request of a batch has rejected while results of an earlier batch are
\* stored and a sibling request is still pending
C12_Witness ==
    /\ last.op = "batchFailed"
    /\ ~personAnalysisResults.null
    /\ Len(personAnalysisResults.items) > 0
    /\ \E x \in Pending : x.batch = last.batch

\* C13 as stated: from a state with an error message on, no step changes the
\* message, starts a model load or a camera acquisition, or leaves the
\* prompt form or a mode button enabled.
C13_TerminalErrors_AsStated ==
    [][errorMessage # ""
       => /\ errorMessage' = errorMessage
          /\ Len(creating') <= Len(creating)
          /\ (setupPc' = "camera" => setupPc = "camera")
          /\ ~FormEnabled'
          /\ ~ModeButtonsEnabled']_vars

\* C14 as stated: once the cleanup has run, no camera track is live, no
\* animation-frame callback is scheduled and no detector handle is open.
C14_Teardown_AsStated ==
    ~mounted =>
        /\ cameraTrack # "live"
        /\ ~rafScheduled
        /\ \A i \in 1..4 : Handles[i] # "open"
        /\ liveModels = 0

\* the detector of the task on screen, once its model is loaded
LiveDetector ==
    IF app = "keyword"
    THEN IF activeTask = "object" /\ objectDetector = "open" THEN "object"
         ELSE IF activeTask = "face" /\ faceDetector = "open" THEN "face"
         ELSE IF activeTask = "hands" /\ handLandmarker = "open" THEN "hands"
         ELSE IF activeTask = "pose" /\ poseLandmarker = "open" THEN "pose"
         ELSE "none"
    ELSE IF detectionMode = "object" /\ objectDetector = "open" THEN "object"
         ELSE IF detectionMode = "person_analysis" /\ faceDetector = "open"
         THEN "face"
         ELSE "none"

\* C15 as stated: a processed frame goes to the detector of the task that is
\* current at that frame, and the loop draws with the task, the detection
\* target and the analysis results that are current at that frame.
C15_ActiveDetectorDispatch_AsStated ==
    (last.op = "renderLoop" /\ last.drew /\ ~isLoading /\ LiveDetector # "none")
    =>
        /\ last.detector = LiveDetector
        /\ IF app = "keyword" THEN loopActiveTask = activeTask
           ELSE loopDetectionMode = detectionMode
        /\ loopDetectionTarget = detectionTarget
        /\ app = "mode" => loopPersonAnalysisResults = personAnalysisResults

\* C16 as stated: the requests of a batch carry the prompt that is current
\* when the batch is dispatched, and the stored results never come from a
\* batch dispatched before the last submit that cleared them.
C16_CurrentPromptInRequests_AsStated ==
    /\ (last.op = "renderLoop" /\ last.issued > 0)
          => \A r \in BatchOf(batchCount) : r.prompt = inputPrompt
    /\ (last.op = "batchDone" /\ ~personAnalysisResults.null)
          => last.batch > clearedBatch

\* the detector the running loop selects
LoopDetector == IF app = "keyword" THEN DetectorKw ELSE DetectorMode

\* C17: every callback leaves a callback scheduled, so from predict to the
\* cleanup one is always scheduled, whether the timestamp changed or a batch
\* is outstanding; a callback that finds a new timestamp runs the loop's
\* detector and redraws, also while the busy flag is set.
C17_RenderLoopLiveness ==
    /\ last.op = "renderLoop" => rafScheduled
    /\ (loopStarted /\ mounted) => rafScheduled
    /\ (last.op = "renderLoop" /\ ~last.same)
          => (last.drew /\ last.detector = LoopDetector)

\* a new frame was detected and drawn, and the loop rescheduled, while the
\* requests of a batch are outstanding
C17_Witness ==
    /\ last.op = "renderLoop"
    /\ ~last.same
    /\ last.busy
    /\ isAnalyzing
    /\ Pending # {}
    /\ last.detector = "face"
    /\ last.drew
    /\ rafScheduled

\* C18: every rectangle stroked for a detection with box (originX, originY,
\* width, height) on a canvas of width W has x = W - originX - width and the
\* box's y, width and height (530 for the box 10,10,100,50 on 640), and
\* mirroring the stroked x again gives originX.
C18_Mirroring ==
    \A k \in 1..Len(strokes) :
        LET s == strokes[k]
            b == frameDetections[s.det]
        IN  /\ HasBox(b)
            /\ s.x = canvasWidth - b.originX - b.width
            /\ s.y = b.originY
            /\ s.width = b.width
            /\ s.height = b.height
            /\ canvasWidth - s.x - s.width = b.originX
            /\ (canvasWidth = 640 /\ b = Box(10, 10, 100, 50)) => s.x = 530

\* the box 10,10,100,50 has been stroked on a canvas 640 wide
C18_Witness ==
    /\ matchPc = "drawn"
    /\ canvasWidth = 640
    /\ \E k \in 1..Len(strokes) :
          /\ frameDetections[strokes[k].det] = Box(10, 10, 100, 50)
          /\ strokes[k].x = 530

\* C19 as stated: a submit of a non-empty prompt in person-analysis mode
\* clears the stored results, and the next processed frame with a face
\* dispatches a batch, whether or not an earlier batch is still in flight.
C19_ImmediateReanalysis_AsStated ==
    /\ (/\ last.op = "submit"
        /\ ~IsFalsyPrompt(last.prompt)
        /\ app = "mode"
        /\ detectionMode = "person_analysis")
          => (personAnalysisResults.null /\ reanalysisDue)
    /\ (/\ last.op = "renderLoop"
        /\ last.drew
        /\ last.faces > 0
        /\ last.due)
          => last.dispatched

\* C20: the busy flag is set only while an awaited request of a batch is
\* pending, and, every request settling in the end, a set flag is cleared
\* again, whether the batch's requests fulfil or one of them rejects.
C20_BusyFlagRelease ==
    /\ [](isAnalyzing => \E r \in Pending : r.awaited)
    /\ isAnalyzing ~> ~isAnalyzing

\* the flag has been cleared by a batch of two requests one of which rejected
C20_Witness ==
    /\ last.op = "batchFailed"
    /\ ~isAnalyzing
    /\ \E r \in Pending : r.batch = last.batch /\ ~r.awaited

\* C21: a batch dispatched after an earlier one, with no submit that reset
\* lastAnalysisTime in between, is dispatched more than 3000 ms after it; a
\* dispatch within 3000 ms of the previous one follows such a submit.
C21_AnalysisRateLimit ==
    (/\ last.op = "renderLoop"
     /\ last.dispatched
     /\ batchCount >= 2
     /\ clearedBatch < batchCount - 1)
        => last.sinceDispatch > AnalysisIntervalMs

\* a second batch has been dispatched with no resetting submit since the
\* first
C21_Witness ==
    /\ last.op = "renderLoop"
    /\ last.dispatched
    /\ batchCount >= 2
    /\ clearedBatch < batchCount - 1
    /\ last.sinceDispatch > AnalysisIntervalMs

\* the last step was a part_000 submit of a prompt that the router maps to
\* the task that was active
SameTaskSubmit ==
    /\ app = "keyword"
    /\ last.op = "submit"
    /\ ~IsFalsyPrompt(last.prompt)
    /\ newActiveTask(last.prompt) = last.task

====
